---- MODULE Spec2Model ----
(***************************************************************************)
(* Model of src/policy-engine/python/policy_engine.py: the PolicyEngine    *)
(* with its DatalogEngine, DeepProbLogEngine and KnowledgeGraphInterface   *)
(* collaborators.                                                          *)
(*                                                                         *)
(* Probabilities and confidences are Python floats in the source.  They    *)
(* are modelled in fixed point, as integers in units of 1/Scale, so that   *)
(* 0.7 * 0.75 is 5250 and 1 - 35/100 is 6500.  The scores of the model are *)
(* integers, for which the order of the floats the source computes and the *)
(* order of these integers agree.                                          *)
(*                                                                         *)
(* A Python call either returns a value or raises: result holds            *)
(* Returned(v) or Raised(e).                                               *)
(***************************************************************************)
EXTENDS Integers, Sequences, FiniteSets, TLC

VARIABLES
    metrics,          \* the caller's batch: list[CodeMetrics]
    knowledge,        \* PolicyEngine.knowledge, the injected knowledge graph
    facts_dir,        \* DatalogEngine.facts_dir: file name -> lines written
    output_dir,       \* DatalogEngine.output_dir: relation -> lines of the csv
    observations,     \* PolicyEngine.observations
    lastCall,         \* the engine operation that ran last
    result,           \* what that operation returned or raised
    update_triggered, \* whether update_from_practice entered its if-branch
    defaults_used,    \* whether get_recommendations took a .get default
    replaced,         \* whether the last load overwrote another batch's facts
    code_features,    \* argument of the predictor calls
    refactor_type     \* argument of predict_refactor_success

vars == <<metrics, knowledge, facts_dir, output_dir, observations, lastCall,
          result, update_triggered, defaults_used, replaced, code_features,
          refactor_type>>

----------------------------------------------------------------------------
(* Bounds of the model *)

MaxBatch == 2
MaxReloadBatch == 2
MaxObservations == 12
MaxNonPositive == 1
MaxFeatures == 5

(* Program constants *)

Scale == 10000
ECO_MINIMUM_LIMIT == 50
ECO_STANDARD_LIMIT == 70
CARBON_TRIGGER == 60
COMPLEXITY_TRIGGER == 50
UPDATE_THRESHOLD == 10
DEFAULT_COMPLEXITY == 50

----------------------------------------------------------------------------
(* Python values *)

Returned(v) == [raised |-> FALSE, value |-> v, error |-> "none"]
Raised(e) == [raised |-> TRUE, value |-> <<>>, error |-> e]

\* dict.get(key, default)
dict_get(d, key, default) == IF key \in DOMAIN d THEN d[key] ELSE default

Min(a, b) == IF a <= b THEN a ELSE b

CodeMetrics(id, carbon, energy, complexity, coverage, debt) ==
    [entity_id |-> id, carbon_score |-> carbon, energy_score |-> energy,
     complexity_score |-> complexity, coverage_score |-> coverage,
     debt_score |-> debt]

----------------------------------------------------------------------------
(* DatalogEngine *)

FactFiles ==
    {"carbon_score", "energy_score", "complexity_score", "coverage_score",
     "debt_score"}

\* f.write(f"{m.entity_id}\t{score}\n")
fact_line(m, file) == m.entity_id \o "\t" \o ToString(m[file]) \o "\n"

\* open(path, "w") truncates the file: only what is written now remains
write_file_appending(old, lines) == old \o lines
write_file(old, lines) == lines

load_metrics(old_facts, batch) ==
    [file \in FactFiles |->
        write_file(old_facts[file],
                   [i \in 1..Len(batch) |-> fact_line(batch[i], file)])]

\* A line of an output csv is modelled by its tab-separated fields; a line
\* that is blank after strip() is the empty tuple and is skipped.
run(outputs) ==
    [relation \in DOMAIN outputs |->
        SelectSeq(outputs[relation], LAMBDA line : line # <<>>)]

query(outputs, relation) == dict_get(run(outputs), relation, <<>>)

----------------------------------------------------------------------------
(* DeepProbLogEngine *)

\* min(1.0, complexity / 100), complexity = code_features[0] if code_features else 50
predict_carbon(features) ==
    LET complexity == IF features # <<>> THEN features[1] ELSE DEFAULT_COMPLEXITY
    IN  Returned(Min(Scale, (complexity * Scale) \div 100))

type_factors ==
    [extract_method |-> 8500, reduce_complexity |-> 7500,
     optimize_loop |-> 6500, add_caching |-> 8000]

\* base_success * type_factors.get(refactor_type, 0.7), base_success = 0.7
predict_refactor_success(features, type) ==
    Returned((7000 * dict_get(type_factors, type, 7000)) \div Scale)

query_probability(q) == 5000

----------------------------------------------------------------------------
(* KnowledgeGraphInterface.  "stub" is the class of the source; "unavailable"
   is an injected knowledge graph whose calls raise. *)

KnowledgeGraphs == {"stub", "unavailable"}

query_best_practices(kg, domain) ==
    IF kg = "unavailable" THEN Raised("KnowledgeGraphUnavailable")
    ELSE Returned(<<
        [practice |-> "Use connection pooling",
         description |-> "Reuse database connections instead of creating new ones",
         impact |-> 1500],
        [practice |-> "Implement caching",
         description |-> "Cache expensive computations",
         impact |-> 2000] >>)

store_analysis(kg, entity_id, analysis) ==
    IF kg = "unavailable" THEN Raised("KnowledgeGraphUnavailable")
    ELSE Returned(<<>>)

----------------------------------------------------------------------------
(* PolicyEngine.analyze *)

features_of(m) ==
    <<m.complexity_score, m.carbon_score, m.energy_score, m.coverage_score>>

probabilistic_entry(m) ==
    [carbon_probability |-> predict_carbon(features_of(m)).value,
     refactor_success |->
        [extract_method |->
            predict_refactor_success(features_of(m), "extract_method").value,
         reduce_complexity |->
            predict_refactor_success(features_of(m), "reduce_complexity").value]]

\* probabilistic_results[m.entity_id] = ... in batch order: for an entity_id
\* that occurs twice the later record overwrites the earlier one
probabilistic_results(batch) ==
    [id \in {batch[i].entity_id : i \in 1..Len(batch)} |->
        LET last == CHOOSE i \in 1..Len(batch) :
                        /\ batch[i].entity_id = id
                        /\ \A j \in (i + 1)..Len(batch) : batch[j].entity_id # id
        IN  probabilistic_entry(batch[last])]

analyze(batch, outputs) ==
    [deterministic |-> run(outputs),
     probabilistic |-> probabilistic_results(batch)]

----------------------------------------------------------------------------
(* PolicyEngine.check_compliance *)

\* best_practices[:3]
first_three(list) == SubSeq(list, 1, Min(3, Len(list)))

get_eco_suggestions(m, kg) ==
    LET carbon == IF m.carbon_score < 50
                  THEN << "Review algorithm complexity - consider more efficient alternatives",
                          "Implement caching for repeated computations",
                          "Use lazy evaluation where possible" >>
                  ELSE <<>>
        energy == IF m.energy_score < 50
                  THEN << "Replace polling with event-driven patterns",
                          "Use connection pooling for external services",
                          "Optimize I/O operations with batching" >>
                  ELSE <<>>
        best_practices == query_best_practices(kg, "eco")
    IN  IF best_practices.raised THEN best_practices
        ELSE LET bps == first_three(best_practices.value)
             IN  Returned(carbon \o energy \o
                     [i \in 1..Len(bps) |->
                         bps[i].practice \o ": " \o bps[i].description])

PolicyViolation(id, policy, severity, message, suggestions) ==
    [entity_id |-> id, policy |-> policy, severity |-> severity,
     message |-> message, suggestions |-> suggestions]

eco_minimum_inclusive(m) ==
    m.carbon_score <= ECO_MINIMUM_LIMIT \/ m.energy_score <= ECO_MINIMUM_LIMIT
eco_minimum_breached(m) ==
    m.carbon_score < ECO_MINIMUM_LIMIT \/ m.energy_score < ECO_MINIMUM_LIMIT

eco_standard_breached(m) ==
    m.carbon_score < ECO_STANDARD_LIMIT \/ m.energy_score < ECO_STANDARD_LIMIT

eco_minimum_violation(m, suggestions) ==
    PolicyViolation(m.entity_id, "eco_minimum", "blocking",
                    "Component does not meet eco minimum standards", suggestions)

eco_standard_violation(m, suggestions) ==
    PolicyViolation(m.entity_id, "eco_standard", "high",
                    "Component does not meet eco standard", suggestions)

\* The body of the loop for one record, with both checks as separate ifs
check_entity_two_ifs(violations, m, kg) ==
    LET s == get_eco_suggestions(m, kg)
        minimum == IF eco_minimum_breached(m)
                   THEN <<eco_minimum_violation(m, s.value)>> ELSE <<>>
        standard == IF eco_standard_breached(m)
                    THEN <<eco_standard_violation(m, s.value)>> ELSE <<>>
    IN  IF (eco_minimum_breached(m) \/ eco_standard_breached(m)) /\ s.raised
        THEN s
        ELSE Returned(violations \o minimum \o standard)

\* The body of the loop for one record: if ... elif ...; the suggestions are
\* computed, and may raise, before the violation is appended
check_entity(violations, m, kg) ==
    IF eco_minimum_breached(m)
    THEN LET s == get_eco_suggestions(m, kg)
         IN  IF s.raised THEN s
             ELSE Returned(Append(violations, eco_minimum_violation(m, s.value)))
    ELSE IF eco_standard_breached(m)
    THEN LET s == get_eco_suggestions(m, kg)
         IN  IF s.raised THEN s
             ELSE Returned(Append(violations, eco_standard_violation(m, s.value)))
    ELSE Returned(violations)

RECURSIVE check_from(_, _, _, _)
check_from(batch, i, violations, kg) ==
    IF i > Len(batch) THEN Returned(violations)
    ELSE LET step == check_entity(violations, batch[i], kg)
         IN  IF step.raised THEN step
             ELSE check_from(batch, i + 1, step.value, kg)

check_compliance(batch, kg) == check_from(batch, 1, <<>>, kg)

----------------------------------------------------------------------------
(* PolicyEngine.get_recommendations *)

Recommendation(id, action, reason, priority, confidence, improvement) ==
    [entity_id |-> id, action |-> action, reason |-> reason,
     priority |-> priority, confidence |-> confidence,
     expected_improvement |-> improvement]

\* analysis["probabilistic"].get(m.entity_id, {})
prob_data_missing(analysis, m) == <<>>
prob_data_of(analysis, m) == dict_get(analysis.probabilistic, m.entity_id, <<>>)

carbon_trigger(m) == m.carbon_score < CARBON_TRIGGER

complexity_trigger(m) == m.complexity_score < COMPLEXITY_TRIGGER

optimize_carbon(m, prob_data) ==
    Recommendation(m.entity_id, "optimize_carbon",
                   "High carbon intensity detected", "high",
                   Scale - dict_get(prob_data, "carbon_probability", 5000),
                   [carbon_score |-> 15])

reduce_complexity(m, prob_data) ==
    Recommendation(m.entity_id, "reduce_complexity",
                   "High complexity impacts maintainability and energy", "medium",
                   dict_get(dict_get(prob_data, "refactor_success", <<>>),
                            "reduce_complexity", 7000),
                   [complexity_score |-> 20, energy_score |-> 5])

\* The body of the loop for one record with the second if turned into an elif
recommend_entity_elif(analysis, m) ==
    IF carbon_trigger(m) THEN <<optimize_carbon(m, prob_data_of(analysis, m))>>
    ELSE IF complexity_trigger(m)
    THEN <<reduce_complexity(m, prob_data_of(analysis, m))>>
    ELSE <<>>

\* The body of the loop for one record: two independent ifs
recommend_entity(analysis, m) ==
    (IF carbon_trigger(m)
     THEN <<optimize_carbon(m, prob_data_of(analysis, m))>> ELSE <<>>)
    \o
    (IF complexity_trigger(m)
     THEN <<reduce_complexity(m, prob_data_of(analysis, m))>> ELSE <<>>)

RECURSIVE recommend_from(_, _, _)
recommend_from(analysis, batch, i) ==
    IF i > Len(batch) THEN <<>>
    ELSE recommend_entity(analysis, batch[i]) \o recommend_from(analysis, batch, i + 1)

\* Whether some .get of the loop falls back to its default
took_default(analysis, m) ==
    LET prob_data == prob_data_of(analysis, m)
    IN  \/ m.entity_id \notin DOMAIN analysis.probabilistic
        \/ carbon_trigger(m) /\ "carbon_probability" \notin DOMAIN prob_data
        \/ complexity_trigger(m) /\
               \/ "refactor_success" \notin DOMAIN prob_data
               \/ "reduce_complexity" \notin
                      DOMAIN dict_get(prob_data, "refactor_success", <<>>)

\* Insertion after the last entry whose confidence is not smaller: what a
\* stable sort in descending order of the key yields
RECURSIVE insert_by_confidence(_, _)
insert_by_confidence(list, r) ==
    IF list = <<>> THEN <<r>>
    ELSE IF Head(list).confidence >= r.confidence
    THEN <<Head(list)>> \o insert_by_confidence(Tail(list), r)
    ELSE <<r>> \o list

RECURSIVE insert_before_equal(_, _)
insert_before_equal(list, r) ==
    IF list = <<>> THEN <<r>>
    ELSE IF Head(list).confidence > r.confidence
    THEN <<Head(list)>> \o insert_before_equal(Tail(list), r)
    ELSE <<r>> \o list

RECURSIVE sorted_from(_, _, _)
sorted_from(list, i, acc) ==
    IF i > Len(list) THEN acc
    ELSE sorted_from(list, i + 1, insert_by_confidence(acc, list[i]))

RECURSIVE reverse_sorted_from(_, _, _)
reverse_sorted_from(list, i, acc) ==
    IF i > Len(list) THEN acc
    ELSE reverse_sorted_from(list, i + 1, insert_before_equal(acc, list[i]))

\* sorted(..., key=lambda r: r.confidence)[::-1]: descending, ties reversed
sorted_then_reversed(recommendations) == reverse_sorted_from(recommendations, 1, <<>>)

\* sorted(recommendations, key=lambda r: r.confidence, reverse=True): Python's
\* sort is stable, and reverse=True keeps the order of equal keys
sorted_by_confidence(recommendations) == sorted_from(recommendations, 1, <<>>)

get_recommendations(batch, outputs) ==
    LET analysis == analyze(batch, outputs)
    IN  sorted_by_confidence(recommend_from(analysis, batch, 1))

----------------------------------------------------------------------------
(* PolicyEngine.record_observation, update_from_practice *)

Outcomes == {"positive", "negative", "neutral"}

PraxisObservation(id, action, outcome) ==
    [entity_id |-> id, action_taken |-> action, outcome |-> outcome]

\* self.observations.append(observation)
append_in_front(log, observation) == <<observation>> \o log
append_observation(log, observation) == Append(log, observation)

positive_outcomes(log) == SelectSeq(log, LAMBDA o : o.outcome = "positive")

update_condition_inclusive(log) == Len(positive_outcomes(log)) >= UPDATE_THRESHOLD
update_condition(log) == Len(positive_outcomes(log)) > UPDATE_THRESHOLD

----------------------------------------------------------------------------
(* Inputs.  Entity ids are opaque strings: a batch is taken up to renaming,
   so its first record is e1 and every later record carries an id already
   used or the next fresh one.  Batches with a repeated id are included. *)

EntityId(k) == "e" \o ToString(k)

Max(S) == CHOOSE x \in S : \A y \in S : y <= x

IdPatterns(n) ==
    {p \in [1..n -> 1..n] :
        \A i \in 1..n : p[i] <= 1 + Max({0} \cup {p[j] : j \in 1..(i - 1)})}

Profile(carbon, energy, complexity) ==
    [carbon |-> carbon, energy |-> energy, complexity |-> complexity,
     coverage |-> 70, debt |-> 40]

MetricsOf(id, profile) ==
    CodeMetrics(id, profile.carbon, profile.energy, profile.complexity,
                profile.coverage, profile.debt)

\* The caller's batch is any batch of at most maxLen records over profiles
DrawBatch(profiles, maxLen) ==
    \E n \in 0..maxLen : \E p \in IdPatterns(n) : \E s \in [1..n -> profiles] :
        metrics = [i \in 1..n |-> MetricsOf(EntityId(p[i]), s[i])]

\* Scores on both sides of, and on, the limits 50 and 70 of the ladder
ComplianceProfiles ==
    {Profile(c, e, 75) : c \in {45, 50, 65, 70, 80}, e \in {45, 50, 55, 70, 72}}

\* Scores on both sides of the triggers 60 and 50; complexity 35 and 49 put
\* optimize_carbon above and below reduce_complexity in confidence, and 0 and
\* 100 are the ends of the range of a score
RecommendationProfiles ==
    {Profile(c, 85, x) : c \in {45, 59, 60, 80}, x \in {0, 35, 49, 50, 75, 100}}

\* The two records of main(), and a second reading of the first entity
ExampleMetrics ==
    {CodeMetrics("e1", 45, 55, 35, 70, 40), CodeMetrics("e2", 80, 85, 75, 90, 80),
     CodeMetrics("e1", 65, 72, 49, 70, 40)}

ExampleBatches ==
    {<<>>, <<CodeMetrics("e1", 45, 55, 35, 70, 40)>>,
     <<CodeMetrics("e1", 45, 55, 35, 70, 40), CodeMetrics("e2", 80, 85, 75, 90, 80)>>}

ReloadBatches ==
    UNION {[1..n -> ExampleMetrics] : n \in 0..MaxReloadBatch}

EmptyFacts == [file \in FactFiles |-> <<>>]

NoOutput == <<>>

ExampleOutput == [violation |-> << <<"e1", "eco_minimum">>, <<>>, <<"e2", "eco_standard">> >>]

OutputDirs == {NoOutput, ExampleOutput}

FeatureVectors == UNION {[1..n -> {35, 75, 120}] : n \in 0..MaxFeatures}

RefactorTypes ==
    {"extract_method", "reduce_complexity", "optimize_loop", "add_caching", "rename"}

ObservationInputs ==
    {PraxisObservation("e1", "optimize_carbon", outcome) : outcome \in Outcomes}

NonPositive(log) == Len(log) - Len(positive_outcomes(log))

None == <<>>

----------------------------------------------------------------------------
(* The engine's operations *)

InitWith(graphs, outputs, vectors, types) ==
    /\ knowledge \in graphs
    /\ facts_dir = EmptyFacts
    /\ output_dir \in outputs
    /\ observations = <<>>
    /\ lastCall = "none"
    /\ result = Returned(None)
    /\ update_triggered = FALSE
    /\ defaults_used = FALSE
    /\ replaced = FALSE
    /\ code_features \in vectors
    /\ refactor_type \in types

\* The caller builds another batch
NewBatch(batch) ==
    /\ metrics' = batch
    /\ lastCall' = "none"
    /\ result' = Returned(None)
    /\ UNCHANGED <<knowledge, facts_dir, output_dir, observations,
                   update_triggered, defaults_used, replaced, code_features,
                   refactor_type>>

Analyze ==
    /\ facts_dir' = load_metrics(facts_dir, metrics)
    /\ replaced' = (facts_dir # EmptyFacts /\ facts_dir # facts_dir')
    /\ result' = Returned(analyze(metrics, output_dir))
    /\ lastCall' = "analyze"
    /\ UNCHANGED <<metrics, knowledge, output_dir, observations,
                   update_triggered, defaults_used, code_features, refactor_type>>

CheckCompliance ==
    /\ result' = check_compliance(metrics, knowledge)
    /\ lastCall' = "check_compliance"
    /\ UNCHANGED <<metrics, knowledge, facts_dir, output_dir, observations,
                   update_triggered, defaults_used, replaced, code_features,
                   refactor_type>>

GetRecommendations ==
    /\ facts_dir' = load_metrics(facts_dir, metrics)
    /\ replaced' = (facts_dir # EmptyFacts /\ facts_dir # facts_dir')
    /\ result' = Returned(get_recommendations(metrics, output_dir))
    /\ defaults_used' =
           (\E i \in 1..Len(metrics) :
                took_default(analyze(metrics, output_dir), metrics[i]))
    /\ lastCall' = "get_recommendations"
    /\ UNCHANGED <<metrics, knowledge, output_dir, observations,
                   update_triggered, code_features, refactor_type>>

\* The append comes first: a store_analysis that raises leaves it in place
RecordObservation(observation) ==
    /\ Len(observations) < MaxObservations
    /\ observation.outcome # "positive" => NonPositive(observations) < MaxNonPositive
    /\ observations' = append_observation(observations, observation)
    /\ result' = store_analysis(knowledge, observation.entity_id,
                                [type |-> "praxis_observation",
                                 action |-> observation.action_taken,
                                 outcome |-> observation.outcome])
    /\ lastCall' = "record_observation"
    /\ UNCHANGED <<metrics, knowledge, facts_dir, output_dir, update_triggered,
                   defaults_used, replaced, code_features, refactor_type>>

UpdateFromPractice ==
    /\ update_triggered' = update_condition(observations)
    /\ result' = Returned(None)
    /\ lastCall' = "update_from_practice"
    /\ UNCHANGED <<metrics, knowledge, facts_dir, output_dir, observations,
                   defaults_used, replaced, code_features, refactor_type>>

PredictCarbon ==
    /\ result' = predict_carbon(code_features)
    /\ lastCall' = "predict_carbon"
    /\ UNCHANGED <<metrics, knowledge, facts_dir, output_dir, observations,
                   update_triggered, defaults_used, replaced, code_features,
                   refactor_type>>

PredictRefactorSuccess ==
    /\ result' = predict_refactor_success(code_features, refactor_type)
    /\ lastCall' = "predict_refactor_success"
    /\ UNCHANGED <<metrics, knowledge, facts_dir, output_dir, observations,
                   update_triggered, defaults_used, replaced, code_features,
                   refactor_type>>

----------------------------------------------------------------------------
(* Specifications *)

\* The engine as main() drives it, with the praxis loop
Init ==
    /\ metrics \in ExampleBatches
    /\ InitWith(KnowledgeGraphs, {ExampleOutput}, {<<>>}, {"rename"})

Next ==
    \/ Analyze
    \/ CheckCompliance
    \/ GetRecommendations
    \/ \E observation \in ObservationInputs : RecordObservation(observation)
    \/ UpdateFromPractice

Spec == Init /\ [][Next]_vars

\* check_compliance over every batch of the ladder's boundary scores
InitCompliance ==
    /\ DrawBatch(ComplianceProfiles, MaxBatch)
    /\ InitWith(KnowledgeGraphs, {NoOutput}, {<<>>}, {"rename"})

NextCompliance == CheckCompliance

SpecCompliance == InitCompliance /\ [][NextCompliance]_vars

\* analyze and get_recommendations over every batch of the triggers' scores
InitRecommend ==
    /\ DrawBatch(RecommendationProfiles, MaxBatch)
    /\ InitWith({"stub"}, {ExampleOutput}, {<<>>}, {"rename"})

NextRecommend == Analyze \/ GetRecommendations

SpecRecommend == InitRecommend /\ [][NextRecommend]_vars

\* analyze called again and again, on the same batch and on other batches
InitReload ==
    /\ metrics \in ReloadBatches
    /\ InitWith({"stub"}, OutputDirs, {<<>>}, {"rename"})

NextReload ==
    \/ \E batch \in ReloadBatches : NewBatch(batch)
    \/ Analyze

SpecReload == InitReload /\ [][NextReload]_vars

\* The predictor called on feature vectors of every length up to MaxFeatures
InitPredictor ==
    /\ metrics = <<>>
    /\ InitWith({"stub"}, {NoOutput}, FeatureVectors, RefactorTypes)

NextPredictor == PredictCarbon \/ PredictRefactorSuccess

SpecPredictor == InitPredictor /\ [][NextPredictor]_vars

----------------------------------------------------------------------------
(* Claims on check_compliance, under SpecCompliance *)

\* C1: a check_compliance call on a batch of pairwise distinct entity ids
\* returns at most one violation per entity id.
C1_AtMostOneViolationPerEntity ==
    (/\ lastCall = "check_compliance"
     /\ ~result.raised
     /\ \A i, j \in 1..Len(metrics) :
            metrics[i].entity_id = metrics[j].entity_id => i = j)
    => \A i, j \in 1..Len(result.value) :
            result.value[i].entity_id = result.value[j].entity_id => i = j

\* C1 witness: two distinct entities, the first below 50 (so below 70 too)
\* and the second between 50 and 70, and two violations returned.
C1_Witness ==
    /\ lastCall = "check_compliance"
    /\ ~result.raised
    /\ Len(metrics) = 2
    /\ metrics[1].entity_id # metrics[2].entity_id
    /\ metrics[1].carbon_score < 50
    /\ metrics[2].carbon_score = 65 /\ metrics[2].energy_score = 72
    /\ Len(result.value) = 2

\* C2: the violations returned are, in batch order, eco_minimum/blocking for
\* each record with carbon < 50 or energy < 50, else eco_standard/high for
\* each record with carbon < 70 or energy < 70, and nothing for the others.
C2_LadderClassification ==
    (lastCall = "check_compliance" /\ ~result.raised) =>
        LET class(m) ==
                IF m.carbon_score < 50 \/ m.energy_score < 50
                THEN <<m.entity_id, "eco_minimum", "blocking">>
                ELSE IF m.carbon_score < 70 \/ m.energy_score < 70
                THEN <<m.entity_id, "eco_standard", "high">>
                ELSE <<m.entity_id, "none", "none">>
            claimed == SelectSeq([i \in 1..Len(metrics) |-> class(metrics[i])],
                                 LAMBDA c : c[2] # "none")
        IN  [k \in 1..Len(result.value) |->
                <<result.value[k].entity_id, result.value[k].policy,
                  result.value[k].severity>>] = claimed

\* C2 witness: a record with a score of exactly 50 (and none below 50) that
\* is classified eco_standard next to a record with both scores exactly 70
\* that is not classified at all.
C2_Witness ==
    /\ lastCall = "check_compliance"
    /\ ~result.raised
    /\ Len(metrics) = 2
    /\ metrics[1].carbon_score = 50 /\ metrics[1].energy_score = 55
    /\ metrics[2].carbon_score = 70 /\ metrics[2].energy_score = 70
    /\ Len(result.value) = 1
    /\ result.value[1].policy = "eco_standard"

\* C6, as claimed: with a knowledge graph whose query fails, check_compliance
\* still returns one violation per breaching record, with the carbon- and
\* energy-specific suggestions only.
C6_ViolationsSurviveKnowledgeGraphFailure ==
    (lastCall = "check_compliance" /\ knowledge = "unavailable") =>
        /\ ~result.raised
        /\ Len(result.value) =
               Cardinality({i \in 1..Len(metrics) :
                   metrics[i].carbon_score < 70 \/ metrics[i].energy_score < 70})
        /\ \A k \in 1..Len(result.value) :
               Len(result.value[k].suggestions) \in {0, 3, 6}

----------------------------------------------------------------------------
(* Claims on get_recommendations, under SpecRecommend *)

C7_IndependentTriggers ==
    lastCall = "get_recommendations" =>
        LET recs == result.value
            ids == {metrics[i].entity_id : i \in 1..Len(metrics)}
            returned(id, action) ==
                Cardinality({k \in 1..Len(recs) :
                    recs[k].entity_id = id /\ recs[k].action = action})
        IN  /\ \A k \in 1..Len(recs) :
                   /\ recs[k].entity_id \in ids
                   /\ \/ recs[k].action = "optimize_carbon" /\ recs[k].priority = "high"
                      \/ recs[k].action = "reduce_complexity" /\ recs[k].priority = "medium"
            /\ \A id \in ids :
                   /\ returned(id, "optimize_carbon") =
                          Cardinality({i \in 1..Len(metrics) :
                              metrics[i].entity_id = id /\ metrics[i].carbon_score < 60})
                   /\ returned(id, "reduce_complexity") =
                          Cardinality({i \in 1..Len(metrics) :
                              metrics[i].entity_id = id /\ metrics[i].complexity_score < 50})

\* C7 witness: one entity fires both triggers, the other (carbon 80,
\* energy 85, complexity 75) fires none.
C7_Witness ==
    /\ lastCall = "get_recommendations"
    /\ Len(metrics) = 2
    /\ metrics[1].carbon_score = 59 /\ metrics[1].complexity_score = 49
    /\ metrics[2].carbon_score = 80 /\ metrics[2].energy_score = 85
    /\ metrics[2].complexity_score = 75
    /\ metrics[1].entity_id # metrics[2].entity_id
    /\ Len(result.value) = 2
    /\ result.value[1].entity_id = metrics[1].entity_id
    /\ result.value[2].entity_id = metrics[1].entity_id

\* C8: every confidence get_recommendations returns lies in [0, 1] and is the
\* predictor's output for that entity and action (1 - predict_carbon of the
\* entity's own features for optimize_carbon, predict_refactor_success for
\* reduce_complexity); no .get default (0.5, 0.7) is ever taken.  Entity ids
\* are pairwise distinct, as the data model requires.
C8_ConfidenceFromPredictor ==
    lastCall = "get_recommendations" =>
        /\ ~defaults_used
        /\ \A k \in 1..Len(result.value) :
               /\ result.value[k].confidence >= 0
               /\ result.value[k].confidence <= Scale
        /\ (\A i, j \in 1..Len(metrics) :
                metrics[i].entity_id = metrics[j].entity_id => i = j)
           => \A k \in 1..Len(result.value) :
                  \E i \in 1..Len(metrics) :
                      LET m == metrics[i]
                          r == result.value[k]
                          own == <<m.complexity_score, m.carbon_score,
                                   m.energy_score, m.coverage_score>>
                      IN  /\ m.entity_id = r.entity_id
                          /\ r.action = "optimize_carbon" =>
                                 r.confidence = Scale - predict_carbon(own).value
                          /\ r.action = "reduce_complexity" =>
                                 r.confidence =
                                     predict_refactor_success(own, "reduce_complexity").value

\* C8 witness: two distinct entities of different complexity, each with an
\* optimize_carbon recommendation, and a reduce_complexity one among them.
C8_Witness ==
    /\ lastCall = "get_recommendations"
    /\ Len(metrics) = 2
    /\ metrics[1].entity_id # metrics[2].entity_id
    /\ metrics[1].complexity_score = 75 /\ metrics[2].complexity_score = 35
    /\ Len(result.value) = 3
    /\ result.value[1].confidence = 6500
    /\ result.value[2].confidence = 5250
    /\ result.value[3].confidence = 2500

----------------------------------------------------------------------------
(* Claims on the praxis loop, under Spec *)

\* C4: when update_from_practice runs, its update condition is true exactly
\* when strictly more than 10 logged observations have outcome positive;
\* negative and neutral observations do not count.
C4_UpdateThreshold ==
    lastCall = "update_from_practice" =>
        (update_triggered <=>
            Cardinality({i \in 1..Len(observations) :
                observations[i].outcome = "positive"}) > 10)

\* C4 witness: the condition is true on a log of 12 observations of which
\* exactly 11 are positive.
C4_Witness ==
    /\ lastCall = "update_from_practice"
    /\ update_triggered
    /\ Len(observations) = 12
    /\ Cardinality({i \in 1..Len(observations) :
           observations[i].outcome = "positive"}) = 11

\* C5: the observation log is append-only: a record_observation step extends
\* it by one observation at its end, and every other step of the engine
\* leaves it as it is.
C5_LogAppendOnly ==
    [][IF lastCall' = "record_observation"
       THEN /\ Len(observations') = Len(observations) + 1
            /\ SubSeq(observations', 1, Len(observations)) = observations
            /\ observations'[Len(observations')] \in ObservationInputs
       ELSE observations' = observations]_vars

\* C5 witness: update_from_practice has run with its condition true on a log
\* that holds a non-positive observation, analyses have staged facts, and the
\* log is still there.
C5_Witness ==
    /\ lastCall = "update_from_practice"
    /\ update_triggered
    /\ facts_dir # EmptyFacts
    /\ Len(observations) = 12
    /\ observations[1].outcome = "negative"

----------------------------------------------------------------------------
(* Claims on analyze, under SpecReload *)

----------------------------------------------------------------------------
(* Claims on the predictor, under SpecPredictor *)

\* C9, as claimed: a prediction on a feature vector that is not of length
\* four raises InvalidFeatures; no probability is returned for it.
C9_MalformedFeaturesRaise ==
    (/\ lastCall \in {"predict_carbon", "predict_refactor_success"}
     /\ Len(code_features) # 4)
    => (result.raised /\ result.error = "InvalidFeatures")

====
